---- MODULE Spec2Model ----
(***************************************************************************)
(* Flight Visualizer (src/app.py): the update_graph callback, which turns  *)
(* an uploaded flight table and a frames-per-hour setting into a timeline, *)
(* a list of interpolated points, a colour map, animation frames and the   *)
(* slider labels.                                                          *)
(*                                                                         *)
(* Time is counted in seconds since midnight of the first day.  The        *)
(* timeline of pd.date_range is evenly spaced, so its timestamps are       *)
(* fractions of a second with the common denominator periods - 1; they are *)
(* stored as integer numerators over TickDiv (exact arithmetic, where      *)
(* pandas truncates to the nanosecond: for flight times in whole seconds   *)
(* the truncation changes no comparison and no minute label).  Coordinates *)
(* are whole degrees and an interpolated coordinate is an exact fraction   *)
(* <<numerator, denominator>>.  The bearing column (atan2 of the route) is *)
(* left out: it is transcendental and no other value depends on it.        *)
(***************************************************************************)
EXTENDS Integers, Sequences, FiniteSets, TLC

VARIABLES
    pc,                     \* position in update_graph
    result,                 \* what update_graph returned
    contents,               \* the uploaded CSV: header and rows of text cells
    frames_per_hour,
    df,                     \* the DataFrame rows
    start_time, end_time, total_frames,
    animation_timestamps,
    densified_data,
    all_airports, airport_colors,
    all_airport_locations, airport_marker_colors,
    initial_frame_df,
    frames,
    sliders

vars == <<pc, result, contents, frames_per_hour, df, start_time, end_time,
          total_frames, animation_timestamps, densified_data, all_airports,
          airport_colors, all_airport_locations, airport_marker_colors,
          initial_frame_df, frames, sliders>>

(***************************************************************************)
(* Bounds of the model.                                                    *)
(***************************************************************************)
\* the largest number of rows of an uploaded table
MaxRows == 2
\* departure and arrival cells name the instants 0, 1, ..., MaxSlot slots after midnight
MaxSlot == 3
\* the length of one slot, in seconds
SlotSeconds == 60

(***************************************************************************)
(* Program constants.                                                      *)
(***************************************************************************)
required_columns ==
    <<"flight_id", "origin_code", "origin_lat", "origin_lon",
      "destination_code", "dest_lat", "dest_lon", "departure_time", "arrival_time">>

bright_colors ==
    <<"#FF6B6B", "#4ECDC4", "#45B7D1", "#96CEB4", "#FFEAA7",
      "#DDA0DD", "#98D8C8", "#F7DC6F", "#BB8FCE", "#85C1E9",
      "#F8C471", "#82E0AA", "#F1948A", "#85C1E9", "#D7BDE2">>

\* the values of the frames slider: min 30, max 120, step 15
FramesPerHourValues == {30 + 15 * k : k \in 0..6}

(***************************************************************************)
(* The uploads the model draws from.                                       *)
(***************************************************************************)
Range(s) == {s[i] : i \in DOMAIN s}

\* the routes flown; row i of a table flies Routes[i], cyclically
Routes ==
    <<[origin_code |-> "DEL", origin_lat |-> 28, origin_lon |-> 77,
       destination_code |-> "BOM", dest_lat |-> 19, dest_lon |-> 72],
      [origin_code |-> "MAA", origin_lat |-> 13, origin_lon |-> 80,
       destination_code |-> "DEL", dest_lat |-> 28, dest_lon |-> 77],
      [origin_code |-> "BOM", origin_lat |-> 19, origin_lon |-> 72,
       destination_code |-> "MAA", dest_lat |-> 13, dest_lon |-> 80]>>

RouteOf(i) == Routes[((i - 1) % Len(Routes)) + 1]

\* flight_id is the table's key: row i is flight "Fi"
FlightIdOf(i) == "F" \o ToString(i)

\* a timestamp cell of the CSV: text that parses to a slot, or text that does not parse
TimeCells == {[ok |-> TRUE, slot |-> k] : k \in 0..MaxSlot}
BadCell == [ok |-> FALSE, slot |-> 0]
\* an unparseable cell is drawn for the first row's departure_time only
DepCells(i) == IF i = 1 THEN TimeCells \cup {BadCell} ELSE TimeCells

FullRow(i, d, a) ==
    [flight_id |-> FlightIdOf(i),
     origin_code |-> RouteOf(i).origin_code,
     origin_lat |-> RouteOf(i).origin_lat,
     origin_lon |-> RouteOf(i).origin_lon,
     destination_code |-> RouteOf(i).destination_code,
     dest_lat |-> RouteOf(i).dest_lat,
     dest_lon |-> RouteOf(i).dest_lon,
     departure_time |-> d,
     arrival_time |-> a]

\* a row of a CSV that has no arrival_time column
ShortRow(i, d) ==
    [flight_id |-> FlightIdOf(i),
     origin_code |-> RouteOf(i).origin_code,
     origin_lat |-> RouteOf(i).origin_lat,
     origin_lon |-> RouteOf(i).origin_lon,
     destination_code |-> RouteOf(i).destination_code,
     dest_lat |-> RouteOf(i).dest_lat,
     dest_lon |-> RouteOf(i).dest_lon,
     departure_time |-> d]

FullTables ==
    UNION {
        {[columns |-> Range(required_columns),
          rows |-> [i \in 1..n |-> FullRow(i, c[i][1], c[i][2])]] :
            c \in {g \in [1..n -> ((TimeCells \cup {BadCell}) \X TimeCells)] :
                      \A i \in 1..n : g[i][1] \in DepCells(i)}} :
        n \in 0..MaxRows}

ShortTables ==
    UNION {
        {[columns |-> Range(required_columns) \ {"arrival_time"},
          rows |-> [i \in 1..n |-> ShortRow(i, c[i])]] :
            c \in [1..n -> TimeCells]} :
        n \in 0..MaxRows}

Uploads == FullTables \cup ShortTables

(***************************************************************************)
(* Helpers of the data preparation.                                        *)
(***************************************************************************)
Max2(a, b) == IF a >= b THEN a ELSE b

SeqMin(s) == CHOOSE x \in Range(s) : \A y \in Range(s) : x <= y
SeqMax(s) == CHOOSE x \in Range(s) : \A y \in Range(s) : x >= y

\* int(x) of a quotient: truncation towards zero
IntTrunc(num, den) == IF num >= 0 THEN num \div den ELSE -((-num) \div den)

\* pd.to_datetime of a cell that parses: seconds since midnight
to_datetime(cell) == cell.slot * SlotSeconds

\* max(int(total_hours * frames_per_hour), 1), total_hours = seconds / 3600
TotalFrames(start, end, fph) == Max2(IntTrunc((end - start) * fph, 3600), 1)

\* the common denominator of the timeline's timestamps
TickDivOf(periods) == Max2(periods - 1, 1)

\* the samples taken one step late
date_range_late(start, end, periods) ==
    [i \in 1..periods |-> start * TickDivOf(periods) + i * (end - start)]

\* pd.date_range(start, end, periods): np.linspace(0, end - start, periods) + start;
\* one period is the start alone
date_range(start, end, periods) ==
    [i \in 1..periods |-> start * TickDivOf(periods) + (i - 1) * (end - start)]

TickDiv == TickDivOf(total_frames)

\* the interval open at the arrival
IsActive_before_arrival(flight, timestamp, div) ==
    /\ flight.departure_time * div <= timestamp
    /\ timestamp < flight.arrival_time * div

\* the interval open at the departure
IsActive_after_departure(flight, timestamp, div) ==
    /\ flight.departure_time * div < timestamp
    /\ timestamp <= flight.arrival_time * div

\* flight['departure_time'] <= timestamp <= flight['arrival_time']
IsActive(flight, timestamp, div) ==
    /\ flight.departure_time * div <= timestamp
    /\ timestamp <= flight.arrival_time * div

\* the division without its guard
progress_ratio_unguarded(flight, timestamp, div) ==
    <<timestamp - flight.departure_time * div,
      (flight.arrival_time - flight.departure_time) * div>>

\* time_elapsed / flight_duration if flight_duration > 0 else 0, as <<numerator, denominator>>
progress_ratio(flight, timestamp, div) ==
    LET flight_duration == flight.arrival_time - flight.departure_time
        time_elapsed == timestamp - flight.departure_time * div
    IN  IF flight_duration > 0
        THEN <<time_elapsed, flight_duration * div>>
        ELSE <<0, 1>>

\* origin and destination exchanged
Interpolate_from_dest(origin, dest, ratio) ==
    <<dest * ratio[2] + (origin - dest) * ratio[1], ratio[2]>>

\* origin + (dest - origin) * progress_ratio, as <<numerator, denominator>>
Interpolate(origin, dest, ratio) ==
    <<origin * ratio[2] + (dest - origin) * ratio[1], ratio[2]>>

DensifiedRow(flight, timestamp, div) ==
    LET ratio == progress_ratio(flight, timestamp, div)
    IN  [flight_id |-> flight.flight_id,
         origin_code |-> flight.origin_code,
         Frame |-> timestamp,
         Current_Lat |-> Interpolate(flight.origin_lat, flight.dest_lat, ratio),
         Current_Lon |-> Interpolate(flight.origin_lon, flight.dest_lon, ratio)]

\* the inner loop: the rows of one timestamp, in table order
RECURSIVE RowsAt(_, _, _, _)
RowsAt(rows, i, timestamp, div) ==
    IF i > Len(rows) THEN <<>>
    ELSE (IF IsActive(rows[i], timestamp, div)
          THEN <<DensifiedRow(rows[i], timestamp, div)>>
          ELSE <<>>) \o RowsAt(rows, i + 1, timestamp, div)

\* the outer loop over the timeline
RECURSIVE DensifyFrom(_, _, _, _)
DensifyFrom(timestamps, k, rows, div) ==
    IF k > Len(timestamps) THEN <<>>
    ELSE RowsAt(rows, 1, timestamps[k], div) \o DensifyFrom(timestamps, k + 1, rows, div)

(***************************************************************************)
(* Helpers of the plotting preparation.                                    *)
(***************************************************************************)
\* pd.unique / Series.unique: the distinct values in order of first appearance
RECURSIVE Unique(_)
Unique(s) ==
    IF s = <<>> THEN <<>>
    ELSE LET front == Unique(SubSeq(s, 1, Len(s) - 1))
             last == s[Len(s)]
         IN  IF last \in Range(front) THEN front ELSE Append(front, last)

\* df[['origin_code', 'destination_code']].values.ravel('K'): the two columns lie
\* column after column in memory, so all origins come before all destinations
RavelK(rows) ==
    [i \in 1..Len(rows) |-> rows[i].origin_code] \o
    [i \in 1..Len(rows) |-> rows[i].destination_code]

IndexOf(s, x) == CHOOSE i \in DOMAIN s : s[i] = x

\* the palette indexed from one
AirportColors_from_one(airports) ==
    [a \in Range(airports) |->
        bright_colors[(IndexOf(airports, a) % Len(bright_colors)) + 1]]

\* {airport: bright_colors[i % len(bright_colors)] for i, airport in enumerate(all_airports)}
AirportColors(airports) ==
    [a \in Range(airports) |->
        bright_colors[((IndexOf(airports, a) - 1) % Len(bright_colors)) + 1]]

\* pd.concat([origin_airports, dest_airports])
AirportRows(rows) ==
    [i \in 1..Len(rows) |->
        [code |-> rows[i].origin_code, lat |-> rows[i].origin_lat, lon |-> rows[i].origin_lon]] \o
    [i \in 1..Len(rows) |->
        [code |-> rows[i].destination_code, lat |-> rows[i].dest_lat, lon |-> rows[i].dest_lon]]

\* drop_duplicates(subset='code'): the first row of every code
RECURSIVE DropDuplicates(_)
DropDuplicates(s) ==
    IF s = <<>> THEN <<>>
    ELSE LET front == DropDuplicates(SubSeq(s, 1, Len(s) - 1))
             last == s[Len(s)]
         IN  IF \E j \in DOMAIN front : front[j].code = last.code
             THEN front ELSE Append(front, last)

FrameColumn(rows) == [i \in 1..Len(rows) |-> rows[i].Frame]

\* densified_df[densified_df['Frame'] == timestamp]
RowsOfFrame(rows, timestamp) == SelectSeq(rows, LAMBDA r : r.Frame = timestamp)

\* frame_df['origin_code'].map(airport_colors), kept with the row it colours
Coloured(rows, colors) ==
    [i \in 1..Len(rows) |->
        [flight_id |-> rows[i].flight_id,
         origin_code |-> rows[i].origin_code,
         Frame |-> rows[i].Frame,
         Current_Lat |-> rows[i].Current_Lat,
         Current_Lon |-> rows[i].Current_Lon,
         hover_text |-> <<rows[i].flight_id, rows[i].origin_code>>,
         color |-> colors[rows[i].origin_code]]]

\* the frames: one for each value of densified_df['Frame'].unique(), named by its index
BuildFrames(rows, colors) ==
    LET stamps == Unique(FrameColumn(rows))
    IN  [i \in 1..Len(stamps) |->
            [name |-> i - 1,
             data |-> Coloured(RowsOfFrame(rows, stamps[i]), colors)]]

\* pd.to_datetime(timestamp).strftime('%H:%M'), as <<hour, minute>>
strftime(timestamp, div) ==
    LET seconds == timestamp \div div
    IN  <<(seconds \div 3600) % 24, (seconds \div 60) % 60>>

\* the slider steps: one for each frame, labelled from animation_timestamps[i]
BuildSliderSteps(frs, timestamps, div) ==
    [i \in 1..Len(frs) |->
        [args |-> frs[i].name, label |-> strftime(timestamps[i], div)]]

(***************************************************************************)
(* The state machine.                                                      *)
(***************************************************************************)
NoTable == [columns |-> {}, rows |-> <<>>]

Init ==
    /\ pc = "idle"
    /\ result = "none"
    /\ contents = NoTable
    /\ frames_per_hour = 30
    /\ df = <<>>
    /\ start_time = 0
    /\ end_time = 0
    /\ total_frames = 0
    /\ animation_timestamps = <<>>
    /\ densified_data = <<>>
    /\ all_airports = <<>>
    /\ airport_colors = <<>>
    /\ all_airport_locations = <<>>
    /\ airport_marker_colors = <<>>
    /\ initial_frame_df = <<>>
    /\ frames = <<>>
    /\ sliders = <<>>

\* the callback fires with no upload: "Please upload a file to begin."
NoUpload ==
    /\ pc = "idle"
    /\ \E fph \in FramesPerHourValues : frames_per_hour' = fph
    /\ pc' = "done"
    /\ result' = "please_upload"
    /\ UNCHANGED <<contents, df, start_time, end_time, total_frames,
                   animation_timestamps, densified_data, all_airports, airport_colors,
                   all_airport_locations, airport_marker_colors, initial_frame_df,
                   frames, sliders>>

\* the callback fires with an upload: the CSV is decoded and read
Upload ==
    /\ pc = "idle"
    /\ \E table \in Uploads, fph \in FramesPerHourValues :
        /\ contents' = table
        /\ frames_per_hour' = fph
        /\ df' = table.rows
    /\ pc' = "columns"
    /\ UNCHANGED <<result, start_time, end_time, total_frames,
                   animation_timestamps, densified_data, all_airports, airport_colors,
                   all_airport_locations, airport_marker_colors, initial_frame_df,
                   frames, sliders>>

\* the check of the required columns
CheckColumns ==
    /\ pc = "columns"
    /\ LET missing_columns ==
            SelectSeq(required_columns, LAMBDA col : col \notin contents.columns)
       IN  IF missing_columns # <<>>
           THEN pc' = "done" /\ result' = "missing_columns"
           ELSE pc' = "parse" /\ UNCHANGED result
    /\ UNCHANGED <<contents, frames_per_hour, df, start_time, end_time, total_frames,
                   animation_timestamps, densified_data, all_airports, airport_colors,
                   all_airport_locations, airport_marker_colors, initial_frame_df,
                   frames, sliders>>

\* pd.to_datetime of both time columns; a cell that does not parse raises
ParseTimes ==
    /\ pc = "parse"
    /\ IF \E i \in DOMAIN df : ~df[i].departure_time.ok \/ ~df[i].arrival_time.ok
       THEN /\ pc' = "done"
            /\ result' = "exception"
            /\ UNCHANGED df
       ELSE /\ pc' = "timeline"
            /\ df' = [i \in DOMAIN df |->
                        [df[i] EXCEPT !.departure_time = to_datetime(df[i].departure_time),
                                      !.arrival_time = to_datetime(df[i].arrival_time)]]
            /\ UNCHANGED result
    /\ UNCHANGED <<contents, frames_per_hour, start_time, end_time, total_frames,
                   animation_timestamps, densified_data, all_airports, airport_colors,
                   all_airport_locations, airport_marker_colors, initial_frame_df,
                   frames, sliders>>

\* the time window, the frame count and the timeline; an empty table has no window
\* (min and max are NaT, int(nan) raises)
BuildTimeline ==
    /\ pc = "timeline"
    /\ IF df = <<>>
       THEN /\ pc' = "done"
            /\ result' = "exception"
            /\ UNCHANGED <<start_time, end_time, total_frames, animation_timestamps>>
       ELSE LET start == SeqMin([i \in DOMAIN df |-> df[i].departure_time])
                end == SeqMax([i \in DOMAIN df |-> df[i].arrival_time])
                periods == TotalFrames(start, end, frames_per_hour)
            IN  /\ start_time' = start
                /\ end_time' = end
                /\ total_frames' = periods
                /\ animation_timestamps' = date_range(start, end, periods)
                /\ pc' = "densify"
                /\ UNCHANGED result
    /\ UNCHANGED <<contents, frames_per_hour, df, densified_data, all_airports,
                   airport_colors, all_airport_locations, airport_marker_colors,
                   initial_frame_df, frames, sliders>>

\* the nested loop over timestamps and flights, and the check that it found a flight
Densify ==
    /\ pc = "densify"
    /\ densified_data' = DensifyFrom(animation_timestamps, 1, df, TickDiv)
    /\ IF densified_data' = <<>>
       THEN pc' = "done" /\ result' = "no_flights"
       ELSE pc' = "plot_prep" /\ UNCHANGED result
    /\ UNCHANGED <<contents, frames_per_hour, df, start_time, end_time, total_frames,
                   animation_timestamps, all_airports, airport_colors,
                   all_airport_locations, airport_marker_colors, initial_frame_df,
                   frames, sliders>>

\* the airports, their colours and their locations
PlotPrep ==
    /\ pc = "plot_prep"
    /\ all_airports' = Unique(RavelK(df))
    /\ airport_colors' = AirportColors(all_airports')
    /\ all_airport_locations' = DropDuplicates(AirportRows(df))
    /\ pc' = "figure"
    /\ UNCHANGED <<result, contents, frames_per_hour, df, start_time, end_time,
                   total_frames, animation_timestamps, densified_data,
                   airport_marker_colors, initial_frame_df, frames, sliders>>

\* the figure: the trace of the first frame, the airport markers, the frames
BuildFigure ==
    /\ pc = "figure"
    /\ initial_frame_df' =
          Coloured(RowsOfFrame(densified_data, SeqMin(FrameColumn(densified_data))),
                   airport_colors)
    /\ airport_marker_colors' =
          [i \in DOMAIN all_airport_locations |->
              airport_colors[all_airport_locations[i].code]]
    /\ frames' = BuildFrames(densified_data, airport_colors)
    /\ pc' = "sliders"
    /\ UNCHANGED <<result, contents, frames_per_hour, df, start_time, end_time,
                   total_frames, animation_timestamps, densified_data, all_airports,
                   airport_colors, all_airport_locations, sliders>>

\* the slider steps, the layout, and the graph is returned
BuildSliders ==
    /\ pc = "sliders"
    /\ sliders' = BuildSliderSteps(frames, animation_timestamps, TickDiv)
    /\ pc' = "done"
    /\ result' = "graph"
    /\ UNCHANGED <<contents, frames_per_hour, df, start_time, end_time, total_frames,
                   animation_timestamps, densified_data, all_airports, airport_colors,
                   all_airport_locations, airport_marker_colors, initial_frame_df,
                   frames>>

\* the callback has returned; its locals are gone and the next request starts afresh
NextRequest ==
    /\ pc = "done"
    /\ pc' = "idle"
    /\ result' = "none"
    /\ contents' = NoTable
    /\ frames_per_hour' = 30
    /\ df' = <<>>
    /\ start_time' = 0
    /\ end_time' = 0
    /\ total_frames' = 0
    /\ animation_timestamps' = <<>>
    /\ densified_data' = <<>>
    /\ all_airports' = <<>>
    /\ airport_colors' = <<>>
    /\ all_airport_locations' = <<>>
    /\ airport_marker_colors' = <<>>
    /\ initial_frame_df' = <<>>
    /\ frames' = <<>>
    /\ sliders' = <<>>

Next ==
    \/ NoUpload
    \/ Upload
    \/ CheckColumns
    \/ ParseTimes
    \/ BuildTimeline
    \/ Densify
    \/ PlotPrep
    \/ BuildFigure
    \/ BuildSliders
    \/ NextRequest

Spec == Init /\ [][Next]_vars

(***************************************************************************)
(* What the properties below read.                                         *)
(***************************************************************************)
\* the timeline has been built (and the table parsed)
TimelineBuilt == animation_timestamps # <<>>

\* the nested loop has run
Densified ==
    \/ pc \in {"plot_prep", "figure", "sliders"}
    \/ pc = "done" /\ result \in {"graph", "no_flights"}

MinDeparture == SeqMin([i \in DOMAIN df |-> df[i].departure_time])
MaxArrival == SeqMax([i \in DOMAIN df |-> df[i].arrival_time])

\* the timeline positions at which flight f is in its closed interval
ActiveStamps(f) ==
    {i \in DOMAIN animation_timestamps :
        /\ df[f].departure_time * TickDiv <= animation_timestamps[i]
        /\ animation_timestamps[i] <= df[f].arrival_time * TickDiv}

\* the points produced for flight f
PointsOf(f) ==
    {k \in DOMAIN densified_data : densified_data[k].flight_id = df[f].flight_id}

\* point p lies at (lat, lon), and its coordinates are defined
AtPosition(p, lat, lon) ==
    /\ p.Current_Lat[2] > 0
    /\ p.Current_Lon[2] > 0
    /\ p.Current_Lat[1] = lat * p.Current_Lat[2]
    /\ p.Current_Lon[1] = lon * p.Current_Lon[2]

(***************************************************************************)
(* C1: the timeline.                                                       *)
(***************************************************************************)
C1_frameCount ==
    Max2(((MaxArrival - MinDeparture) * frames_per_hour) \div 3600, 1)

C1_Shape ==
    /\ Len(animation_timestamps) = C1_frameCount
    /\ \A i \in 1..(Len(animation_timestamps) - 1) :
          animation_timestamps[i] <= animation_timestamps[i + 1]
    /\ animation_timestamps[1] = MinDeparture * TickDiv

\* C1 as stated: for every non-empty flight set and every frames-per-hour value the
\* timeline has max(floor(windowHours * framesPerHour), 1) timestamps, is
\* non-decreasing, starts at the least departure and ends at the greatest arrival.
C1_AsStated ==
    TimelineBuilt =>
        /\ C1_Shape
        /\ animation_timestamps[Len(animation_timestamps)] = MaxArrival * TickDiv

\* C1 amended: the count, the order and the first timestamp are as stated; the last
\* timestamp is the greatest arrival when the timeline has at least two timestamps
\* (or the window is empty); a timeline of one timestamp is the least departure alone.
C1_Timeline ==
    TimelineBuilt =>
        /\ C1_Shape
        /\ (C1_frameCount >= 2 \/ MinDeparture = MaxArrival) =>
              animation_timestamps[Len(animation_timestamps)] = MaxArrival * TickDiv
        /\ C1_frameCount = 1 => animation_timestamps = <<MinDeparture * TickDiv>>

C1_Witness ==
    /\ pc = "densify"
    /\ Len(df) = 2
    /\ frames_per_hour = 105
    /\ Len(animation_timestamps) >= 3
    /\ animation_timestamps[Len(animation_timestamps)] = MaxArrival * TickDiv

(***************************************************************************)
(* C2: one frame for each entry of the timeline.                           *)
(***************************************************************************)
\* C2 as stated: a timeline of N timestamps gives N frames, frame i is named i and
\* holds exactly the points of the i-th timestamp, in ascending order of time, also
\* for the timestamps at which no flight is active.
C2_AsStated ==
    (pc = "done" /\ result = "graph") =>
        /\ Len(frames) = Len(animation_timestamps)
        /\ \A i \in DOMAIN frames :
              /\ frames[i].name = i - 1
              /\ {<<p.flight_id, p.Frame>> : p \in Range(frames[i].data)} =
                 {<<p.flight_id, p.Frame>> :
                     p \in {q \in Range(densified_data) :
                               q.Frame = animation_timestamps[i]}}

(***************************************************************************)
(* C3: the slider labels.                                                  *)
(***************************************************************************)
\* C3 as stated: the label of the slider step of frame i is the formatted time of
\* the timestamp whose points frame i holds.
C3_AsStated ==
    (pc = "done" /\ result = "graph") =>
        /\ Len(sliders) = Len(frames)
        /\ \A i \in DOMAIN frames :
              /\ sliders[i].args = frames[i].name
              /\ \A p \in Range(frames[i].data) :
                    sliders[i].label = strftime(p.Frame, TickDiv)

(***************************************************************************)
(* C4: a point for a flight and a timestamp exactly when the flight is     *)
(* active.                                                                 *)
(***************************************************************************)
\* C4: for every flight the number of its points is the number of timeline
\* timestamps in its closed interval [departure, arrival], and a point of the flight
\* exists at a timestamp if and only if the flight is active at it.
C4_PointsIffActive ==
    Densified =>
        \A f \in DOMAIN df :
            /\ Cardinality(PointsOf(f)) = Cardinality(ActiveStamps(f))
            /\ \A i \in DOMAIN animation_timestamps :
                  (\E k \in PointsOf(f) :
                      densified_data[k].Frame = animation_timestamps[i])
                  <=> i \in ActiveStamps(f)

C4_Witness ==
    /\ pc = "done"
    /\ result = "graph"
    /\ \E f \in DOMAIN df :
          /\ Cardinality(PointsOf(f)) >= 2
          /\ Cardinality(PointsOf(f)) < Len(animation_timestamps)
          /\ animation_timestamps[Len(animation_timestamps)] =
                df[f].arrival_time * TickDiv

(***************************************************************************)
(* C5: the endpoints of a flight.                                          *)
(***************************************************************************)
C5_AtDeparture ==
    \A f \in DOMAIN df : \A k \in PointsOf(f) :
        densified_data[k].Frame = df[f].departure_time * TickDiv =>
            AtPosition(densified_data[k], df[f].origin_lat, df[f].origin_lon)

\* C5 as stated: a point at the departure time is at the origin, a point at the
\* arrival time is at the destination, and in a table of one flight the first point
\* is at the origin and the last at the destination.
C5_AsStated ==
    Densified =>
        /\ C5_AtDeparture
        /\ \A f \in DOMAIN df : \A k \in PointsOf(f) :
              densified_data[k].Frame = df[f].arrival_time * TickDiv =>
                  AtPosition(densified_data[k], df[f].dest_lat, df[f].dest_lon)
        /\ (Len(df) = 1 /\ densified_data # <<>>) =>
              /\ AtPosition(densified_data[1], df[1].origin_lat, df[1].origin_lon)
              /\ AtPosition(densified_data[Len(densified_data)],
                            df[1].dest_lat, df[1].dest_lon)

\* C5 amended: a point at the departure time is at the origin; a point at the arrival
\* time of a flight that lasts longer than zero is at the destination (a flight of
\* zero duration stays at its origin); in a table of one flight the first point is at
\* the origin, and the last is at the destination when the timeline has at least two
\* timestamps.
C5_Endpoints ==
    Densified =>
        /\ C5_AtDeparture
        /\ \A f \in DOMAIN df : \A k \in PointsOf(f) :
              /\ densified_data[k].Frame = df[f].arrival_time * TickDiv
              /\ df[f].arrival_time > df[f].departure_time
              => AtPosition(densified_data[k], df[f].dest_lat, df[f].dest_lon)
        /\ \A f \in DOMAIN df : \A k \in PointsOf(f) :
              df[f].arrival_time = df[f].departure_time =>
                  AtPosition(densified_data[k], df[f].origin_lat, df[f].origin_lon)
        /\ (Len(df) = 1 /\ densified_data # <<>>) =>
              /\ AtPosition(densified_data[1], df[1].origin_lat, df[1].origin_lon)
              /\ total_frames >= 2 =>
                    AtPosition(densified_data[Len(densified_data)],
                               df[1].dest_lat, df[1].dest_lon)

C5_Witness ==
    /\ pc = "done"
    /\ result = "graph"
    /\ Len(df) = 1
    /\ total_frames >= 3
    /\ Len(densified_data) = total_frames
    /\ AtPosition(densified_data[Len(densified_data)], df[1].dest_lat, df[1].dest_lon)

(***************************************************************************)
(* C6: a flight of zero duration.                                          *)
(***************************************************************************)
C6_AtOrigin(f) ==
    \A k \in PointsOf(f) :
        /\ densified_data[k].Frame = df[f].departure_time * TickDiv
        /\ AtPosition(densified_data[k], df[f].origin_lat, df[f].origin_lon)

\* C6 as stated: in any table, a flight whose departure equals its arrival has
\* progress 0, no division by zero, and exactly one point, at that instant.
C6_AsStated ==
    Densified =>
        \A f \in DOMAIN df :
            df[f].departure_time = df[f].arrival_time =>
                /\ Cardinality(PointsOf(f)) = 1
                /\ C6_AtOrigin(f)

\* C6 amended: a flight whose departure equals its arrival has at most one point,
\* and has one exactly when its departure time is a timestamp of the timeline (it
\* always is in a table of one flight); the point is at that instant, at the origin
\* (progress 0), with no division by zero.
C6_ZeroDuration ==
    Densified =>
        \A f \in DOMAIN df :
            df[f].departure_time = df[f].arrival_time =>
                /\ Cardinality(PointsOf(f)) <= 1
                /\ Cardinality(PointsOf(f)) = 1 <=>
                      \E i \in DOMAIN animation_timestamps :
                          animation_timestamps[i] = df[f].departure_time * TickDiv
                /\ Len(df) = 1 => Cardinality(PointsOf(f)) = 1
                /\ C6_AtOrigin(f)

C6_Witness ==
    /\ pc = "done"
    /\ result = "graph"
    /\ Len(df) = 2
    /\ df[2].departure_time = df[2].arrival_time
    /\ df[2].departure_time > df[1].departure_time
    /\ Cardinality(PointsOf(2)) = 1
    /\ Cardinality(PointsOf(1)) >= 2

(***************************************************************************)
(* C7: a defect of the uploaded table fails the request.                   *)
(***************************************************************************)
C7_MissingColumn == \E col \in Range(required_columns) : col \notin contents.columns

C7_InvertedRow ==
    /\ ~C7_MissingColumn
    /\ \E i \in DOMAIN contents.rows :
          /\ contents.rows[i].departure_time.ok
          /\ contents.rows[i].arrival_time.ok
          /\ contents.rows[i].arrival_time.slot < contents.rows[i].departure_time.slot

\* C7 as stated: when a row of the table has a missing required column or an
\* arrival before its departure, update_graph ends in an error before any point is
\* computed; no request completes with a figure that leaves a supplied row out.
\* ("No flights found" is counted with the errors here: it shows no figure.)
C7_AsStated ==
    (contents # NoTable /\ (C7_MissingColumn \/ C7_InvertedRow)) =>
        /\ densified_data = <<>>
        /\ pc = "done" => result \in {"missing_columns", "exception", "no_flights"}

(***************************************************************************)
(* C8: the colours.                                                        *)
(***************************************************************************)
\* the codes of the table, origins first, then destinations
C8_Codes ==
    [i \in 1..(2 * Len(df)) |->
        IF i <= Len(df) THEN df[i].origin_code ELSE df[i - Len(df)].destination_code]

C8_FirstAt(c) ==
    CHOOSE i \in DOMAIN C8_Codes :
        C8_Codes[i] = c /\ \A j \in 1..(i - 1) : C8_Codes[j] # c

\* the number of distinct codes that appear before code c
C8_Rank(c) ==
    Cardinality({d \in Range(C8_Codes) : C8_FirstAt(d) < C8_FirstAt(c)})

C8_Color(c) == bright_colors[(C8_Rank(c) % Len(bright_colors)) + 1]

C8_OriginOf(id) == df[CHOOSE f \in DOMAIN df : df[f].flight_id = id].origin_code

\* C8: within one invocation every airport code has one colour, the palette entry
\* at (its index in order of first appearance) mod (palette size); the airport
\* marker of a code, and the points of the initial trace and of every frame whose
\* flight starts at that code, carry that colour.
C8_Colours ==
    (pc = "sliders" \/ (pc = "done" /\ result = "graph")) =>
        /\ DOMAIN airport_colors = Range(C8_Codes)
        /\ \A c \in Range(C8_Codes) : airport_colors[c] = C8_Color(c)
        /\ {all_airport_locations[i].code : i \in DOMAIN all_airport_locations}
              = Range(C8_Codes)
        /\ \A i \in DOMAIN all_airport_locations :
              airport_marker_colors[i] = C8_Color(all_airport_locations[i].code)
        /\ \A p \in Range(initial_frame_df) : p.color = C8_Color(C8_OriginOf(p.flight_id))
        /\ \A i \in DOMAIN frames : \A p \in Range(frames[i].data) :
              p.color = C8_Color(C8_OriginOf(p.flight_id))

C8_Witness ==
    /\ pc = "done"
    /\ result = "graph"
    /\ Len(df) = 2
    /\ Len(all_airports) = 3
    /\ Len(frames) >= 3
    /\ \E i \in DOMAIN frames : Len(frames[i].data) = 2

(***************************************************************************)
(* C9: a limit on the number of points.                                    *)
(***************************************************************************)
\* a limit the claim is tried with; the code names none
FramePointLimit == 4

\* C9 as stated, for the limit B = FramePointLimit: update_graph never builds more
\* than B points, and a request that would need more ends in a resource-limit error.
C9_AsStated ==
    /\ Len(densified_data) <= FramePointLimit
    /\ (pc = "done" /\ TimelineBuilt /\ Cardinality(UNION {
            {<<f, i>> : i \in ActiveStamps(f)} : f \in DOMAIN df}) > FramePointLimit)
          => result = "resource_limit"

(***************************************************************************)
(* C10: "No flights found" needs an inverted row.                          *)
(***************************************************************************)
C10_WellFormed == \A f \in DOMAIN df : df[f].arrival_time >= df[f].departure_time

\* C10: when every flight of a non-empty table arrives no earlier than it departs,
\* some flight is active at the first timestamp of the timeline, the list of points
\* is not empty and the result is not "No flights found"; that result is reached
\* only with a flight that arrives before it departs.
C10_NoFlightsNeedsInverted ==
    Densified =>
        /\ C10_WellFormed =>
              /\ \E k \in DOMAIN densified_data :
                    densified_data[k].Frame = animation_timestamps[1]
              /\ result # "no_flights"
        /\ result = "no_flights" =>
              \E f \in DOMAIN df : df[f].arrival_time < df[f].departure_time

C10_Witness ==
    /\ pc = "done"
    /\ result = "graph"
    /\ Len(df) = 2
    /\ C10_WellFormed
    /\ df[1].departure_time > df[2].departure_time

====
